---- MODULE Spec2Model ----
\* Broadlink LIFAair purifier fan entity (homeassistant/components/broadlink/fan.py):
\* the entity's attributes, the vendor device behind the request channel, and the
\* entity's public coroutines, each suspended at every vendor request.
EXTENDS Integers, Sequences, FiniteSets, TLC

VARIABLES entity, device, tasks, lastUpdate, conv

vars == <<entity, device, tasks, lastUpdate, conv>>

-----------------------------------------------------------------------------
\* Bounds of the model

\* Number of calls of the public methods kept at a time: in progress, or
\* finished with their result not yet taken.
NumTasks == 2

-----------------------------------------------------------------------------
\* Constants of the program

MAX_FAN_SPEED == 121

\* Percentage is the platform's 0..100 scale (the divisor / factor 100 of the
\* two conversions).
MAX_PERCENTAGE == 100

\* The speed async_set_preset_mode("manual") falls back to.
DEFAULT_MANUAL_PERCENTAGE == 50

\* Python's None where a string or a FanMode is expected, and a dict key that is
\* absent (dict.get returns None).
NONE == "None"

\* Python's None where an integer is expected (percentage, fan_speed).
NoneInt == -1

\* broadlink.purifier.FanMode: the members the entity names, and one ordinary
\* mode (NIGHT) standing for the modes it does not name.
FanMode == {"OFF", "AUTO", "NIGHT", "MANUAL", "UNKNOWN"}

\* str.lower() on the names of FanMode members.
Lower(s) ==
    CASE s = "OFF" -> "off"
      [] s = "AUTO" -> "auto"
      [] s = "NIGHT" -> "night"
      [] s = "MANUAL" -> "manual"
      [] s = "UNKNOWN" -> "unknown"
      [] OTHER -> s

\* str.upper() on the preset names a caller may pass.
Upper(s) ==
    CASE s = "off" -> "OFF"
      [] s = "auto" -> "AUTO"
      [] s = "Auto" -> "AUTO"
      [] s = "night" -> "NIGHT"
      [] s = "manual" -> "MANUAL"
      [] s = "unknown" -> "UNKNOWN"
      [] s = "eco" -> "ECO"
      [] OTHER -> s

\* Python's round(n / d) for n >= 0, d > 0: nearest integer, ties to even.
PyRound(n, d) ==
    LET q == n \div d
        r == n % d
    IN  IF 2 * r < d THEN q
        ELSE IF 2 * r > d THEN q + 1
        ELSE IF q % 2 = 0 THEN q ELSE q + 1

\* A conversion that truncates instead of rounding.
_fan_percentage_to_speed_truncating(percentage) ==
    (MAX_FAN_SPEED * percentage) \div MAX_PERCENTAGE

_fan_percentage_to_speed(percentage) ==
    PyRound(MAX_FAN_SPEED * percentage, MAX_PERCENTAGE)

_fan_speed_to_percentage(fan_speed) ==
    PyRound(MAX_PERCENTAGE * fan_speed, MAX_FAN_SPEED)

_fan_mode_to_name(fan_mode) == Lower(fan_mode)

\* FanMode[name.upper()]; KeyError is the result "KeyError".
_fan_name_to_mode(fan_mode_name) ==
    IF Upper(fan_mode_name) \in FanMode THEN Upper(fan_mode_name) ELSE "KeyError"

_attr_preset_modes ==
    { _fan_mode_to_name(e) : e \in FanMode \ {"OFF", "UNKNOWN"} }

-----------------------------------------------------------------------------
\* Inputs the environment and the callers draw from

\* Percentages a caller passes: 50 converts to the tie 60.5, rounded to even.
Percentages == {50}

\* Preset names a caller passes: the names of the FanMode members in lower
\* case, one in mixed case, and one that names no FanMode.
PresetNames == {"off", "auto", "Auto", "night", "manual", "unknown", "eco"}

\* Vendor speeds a coordinator refresh may carry.
PushedSpeeds == {121}

\* A state dictionary: a key that is absent reads as NONE.
StateData == [fan_mode : FanMode \cup {NONE}, fan_speed : PushedSpeeds \cup {NoneInt}]

Tasks == 1 .. NumTasks

-----------------------------------------------------------------------------
\* The entity

\* Entity.available as read back at line 70: the attribute just assigned.
available(e) == e.available

\* An _update_state that reads fan_speed before it looks at fan_mode, and
\* stores its conversion (None when the key is absent) either way.
_update_state_speed_first(e, data) ==
    LET fan_mode == data.fan_mode
        pct == IF data.fan_speed # NoneInt
               THEN _fan_speed_to_percentage(data.fan_speed) ELSE NoneInt
        e1 == [e EXCEPT !.available = (fan_mode # NONE), !.percentage = pct]
    IN  IF available(e1)
        THEN [e1 EXCEPT !.preset_mode =
                            IF fan_mode # "OFF" THEN _fan_mode_to_name(fan_mode) ELSE NONE]
        ELSE e1

\* An _update_state that names every mode, OFF included.
_update_state_naming_off(e, data) ==
    LET fan_mode == data.fan_mode
        e1 == [e EXCEPT !.available = (fan_mode # NONE)]
    IN  IF available(e1)
        THEN LET e2 == [e1 EXCEPT !.preset_mode = _fan_mode_to_name(fan_mode)]
                 fan_speed == data.fan_speed
             IN  IF fan_speed # NoneInt
                 THEN [e2 EXCEPT !.percentage = _fan_speed_to_percentage(fan_speed)]
                 ELSE e2
        ELSE e1

_update_state(e, data) ==
    LET fan_mode == data.fan_mode
        e1 == [e EXCEPT !.available = (fan_mode # NONE)]
    IN  IF available(e1)
        THEN LET e2 == [e1 EXCEPT !.preset_mode =
                           IF fan_mode # "OFF" THEN _fan_mode_to_name(fan_mode) ELSE NONE]
                 fan_speed == data.fan_speed
             IN  IF fan_speed # NoneInt
                 THEN [e2 EXCEPT !.percentage = _fan_speed_to_percentage(fan_speed)]
                 ELSE e2
        ELSE e1

\* DataUpdateCoordinator.async_set_updated_data: the listeners run at once, and
\* the entity's listener hands the data to _update_state.
async_set_updated_data(e, data) == _update_state(e, data)

-----------------------------------------------------------------------------
\* The vendor device behind self._device.async_request

\* A vendor call: api.set_fan_mode(mode) or api.set_fan_speed(speed).
SetFanMode(m) == [fn |-> "set_fan_mode", mode |-> m, speed |-> NoneInt]
SetFanSpeed(s) == [fn |-> "set_fan_speed", mode |-> NONE, speed |-> s]
NoCall == [fn |-> NONE, mode |-> NONE, speed |-> NoneInt]
NoData == [fan_mode |-> NONE, fan_speed |-> NoneInt]

\* The device refuses every command but a mode command while it is OFF
\* (error -5, comment at lines 116-117).
DeviceRejects(dev, call) == call.fn = "set_fan_speed" /\ dev.mode = "OFF"

\* The device after a command it accepts: a speed command enters MANUAL
\* (comment at line 83).
DeviceApply(dev, call) ==
    IF call.fn = "set_fan_mode"
    THEN [dev EXCEPT !.mode = call.mode]
    ELSE [dev EXCEPT !.mode = "MANUAL", !.speed = call.speed]

\* The state snapshot every state-setting call returns (comment at lines 126-127).
Snapshot(dev) == [fan_mode |-> dev.mode, fan_speed |-> dev.speed]

-----------------------------------------------------------------------------
\* The coroutines of the entity. A task is one call of a public method; it runs
\* without interruption up to its next await of self._device.async_request.
\*   pc     idle | turn_on_if_needed (awaiting at lines 119-121)
\*          | request (awaiting at line 128) | done | failed
\*   frame  the method whose body continues when the await returns
\*   net    the awaited request: sent | answered
\*   error  the exception raised in the call: KeyError | rejected | lost
\*   op, arg_percentage, preset   the public method called and its arguments
\*   issued, pushes   the vendor calls issued and the coordinator pushes made
\*   start  whether the entity's preset_mode was None, and its percentage, when
\*          the method was called

IdleTask ==
    [pc |-> "idle", op |-> NONE, arg_percentage |-> NoneInt, preset |-> NONE,
     frame |-> NONE,
     percentage |-> NoneInt, fan_mode |-> NONE,
     call |-> NoCall, net |-> NONE, reply |-> NoData, error |-> NONE,
     issued |-> << >>, pushes |-> 0,
     start |-> [off |-> FALSE, percentage |-> NoneInt]]

\* The platform calls a public method of the entity.
Begin(op, percentage, preset, e) ==
    [IdleTask EXCEPT !.op = op, !.arg_percentage = percentage, !.preset = preset,
                     !.start = [off |-> (e.preset_mode = NONE),
                                percentage |-> e.percentage]]

\* await self._device.async_request(function, *args): the call is handed to the
\* request channel and the coroutine is suspended at pc.
Await(task, pc, call) ==
    [task EXCEPT !.pc = pc, !.call = call, !.net = "sent", !.reply = NoData,
                 !.issued = Append(@, call)]

\* The coroutine returns / an exception leaves it.
Return(task) == [task EXCEPT !.pc = "done", !.call = NoCall, !.net = NONE, !.reply = NoData]
Raise(task) == [task EXCEPT !.pc = "failed", !.call = NoCall, !.net = NONE, !.reply = NoData]

\* An exception of the given kind is on its way to the coroutine.
Throw(task, error) == [task EXCEPT !.error = error]

\* _async_request, first half (line 128): the vendor call is awaited.
_async_request(task, call) == Await(task, "request", call)

\* A turn-on step that looks at preset_mode alone, whatever force says.
_async_turn_on_if_needed_unforced(task, force, e) ==
    IF e.preset_mode = NONE
    THEN Await(task, "turn_on_if_needed", SetFanMode("AUTO"))
    ELSE task

\* _async_turn_on_if_needed up to its await; the task is returned unchanged
\* when nothing is to be awaited (return False).
_async_turn_on_if_needed(task, force, e) ==
    IF force \/ e.preset_mode = NONE
    THEN Await(task, "turn_on_if_needed", SetFanMode("AUTO"))
    ELSE task

\* async_set_percentage after its turn-on step (lines 94-95).
set_percentage_continue(task) ==
    _async_request(task, SetFanSpeed(_fan_percentage_to_speed(task.percentage)))

async_set_percentage(task, e, percentage) ==
    LET t0 == [task EXCEPT !.frame = "async_set_percentage", !.percentage = percentage]
        t1 == _async_turn_on_if_needed(t0, FALSE, e)
    IN  IF t1.pc = "turn_on_if_needed" THEN t1 ELSE set_percentage_continue(t1)

\* A set_preset_mode that sends the requested mode whatever the turn-on step did.
set_preset_mode_continue_always(task, wasSetToAuto) ==
    _async_request(task, SetFanMode(task.fan_mode))

\* async_set_preset_mode after its turn-on step (lines 88-89).
set_preset_mode_continue(task, wasSetToAuto) ==
    IF ~(wasSetToAuto /\ task.fan_mode = "AUTO")
    THEN _async_request(task, SetFanMode(task.fan_mode))
    ELSE Return(task)

\* A set_preset_mode without the MANUAL special case: MANUAL is sent as a mode.
async_set_preset_mode_raw(task, e, preset_mode) ==
    LET fan_mode == _fan_name_to_mode(preset_mode)
    IN  IF fan_mode = "KeyError" THEN Raise(Throw(task, "KeyError"))
        ELSE LET t0 == [task EXCEPT !.frame = "async_set_preset_mode",
                                    !.fan_mode = fan_mode]
                 t1 == _async_turn_on_if_needed(t0, FALSE, e)
             IN  IF t1.pc = "turn_on_if_needed" THEN t1
                 ELSE set_preset_mode_continue(t1, FALSE)

async_set_preset_mode(task, e, preset_mode) ==
    LET fan_mode == _fan_name_to_mode(preset_mode)
    IN  IF fan_mode = "KeyError" THEN Raise(Throw(task, "KeyError"))
        ELSE IF fan_mode = "MANUAL"
        THEN LET p == e.percentage
             IN  async_set_percentage([task EXCEPT !.fan_mode = fan_mode], e,
                                      IF p # NoneInt THEN p ELSE DEFAULT_MANUAL_PERCENTAGE)
        ELSE LET t0 == [task EXCEPT !.frame = "async_set_preset_mode",
                                    !.fan_mode = fan_mode]
                 t1 == _async_turn_on_if_needed(t0, FALSE, e)
             IN  IF t1.pc = "turn_on_if_needed" THEN t1
                 ELSE set_preset_mode_continue(t1, FALSE)

async_turn_on(task, e, percentage, preset_mode) ==
    IF percentage # NoneInt THEN async_set_percentage(task, e, percentage)
    ELSE IF preset_mode # NONE THEN async_set_preset_mode(task, e, preset_mode)
    ELSE LET t1 == _async_turn_on_if_needed([task EXCEPT !.frame = "async_turn_on"], TRUE, e)
         IN  IF t1.pc = "turn_on_if_needed" THEN t1 ELSE Return(t1)

async_turn_off(task) ==
    _async_request([task EXCEPT !.frame = "async_turn_off"], SetFanMode("OFF"))

\* The statement after `await self._async_turn_on_if_needed(...)` in the caller,
\* the turn-on step having returned True (line 122).
after_turn_on(task) ==
    CASE task.frame = "async_set_percentage" -> set_percentage_continue(task)
      [] task.frame = "async_set_preset_mode" -> set_preset_mode_continue(task, TRUE)
      [] OTHER -> Return(task)

\* _async_request, second half (line 129): the returned snapshot goes to the
\* coordinator, and the method that awaited _async_request returns.
_async_request_returns(task) == Return([task EXCEPT !.pushes = @ + 1])

\* The awaited request raises instead of returning, and the method asks again.
request_raises_retry(task) == Await(task, task.pc, task.call)

\* The awaited request raises instead of returning: no try/except anywhere, so
\* the exception leaves every frame.
request_raises(task) == Raise(task)

-----------------------------------------------------------------------------
\* State and actions

\* lastUpdate: whether the step just taken ran _update_state, and on what data.
NoUpdate == [ran |-> FALSE, data |-> NoData]
Updated(data) == [ran |-> TRUE, data |-> data]

\* conv: a value taken through one conversion and back through the other.
ConvIdle == [dir |-> NONE, input |-> NoneInt, value |-> NoneInt, step |-> 0]

Init ==
    /\ entity = [available |-> TRUE, preset_mode |-> NONE, percentage |-> NoneInt]
    /\ device \in [mode : {"OFF", "AUTO"}, speed : {MAX_FAN_SPEED}]
    /\ tasks = [t \in Tasks |-> IdleTask]
    /\ lastUpdate = NoUpdate
    /\ conv = ConvIdle

Call_turn_on(t) ==
    /\ tasks[t].pc = "idle"
    /\ \E percentage \in Percentages \cup {NoneInt}, preset_mode \in {NONE, "night"} :
          tasks' = [tasks EXCEPT ![t] =
                       async_turn_on(Begin("turn_on", percentage, preset_mode, entity),
                                     entity, percentage, preset_mode)]
    /\ lastUpdate' = NoUpdate
    /\ UNCHANGED <<entity, device, conv>>

Call_turn_off(t) ==
    /\ tasks[t].pc = "idle"
    /\ tasks' = [tasks EXCEPT ![t] = async_turn_off(Begin("turn_off", NoneInt, NONE, entity))]
    /\ lastUpdate' = NoUpdate
    /\ UNCHANGED <<entity, device, conv>>

Call_set_percentage(t) ==
    /\ tasks[t].pc = "idle"
    /\ \E percentage \in Percentages :
          tasks' = [tasks EXCEPT ![t] =
                       async_set_percentage(Begin("set_percentage", percentage, NONE, entity),
                                            entity, percentage)]
    /\ lastUpdate' = NoUpdate
    /\ UNCHANGED <<entity, device, conv>>

Call_set_preset_mode(t) ==
    /\ tasks[t].pc = "idle"
    /\ \E preset_mode \in PresetNames :
          tasks' = [tasks EXCEPT ![t] =
                       async_set_preset_mode(
                           Begin("set_preset_mode", NoneInt, preset_mode, entity),
                           entity, preset_mode)]
    /\ lastUpdate' = NoUpdate
    /\ UNCHANGED <<entity, device, conv>>

\* The awaited request reaches the device, which refuses it (the await raises)
\* or applies it and answers with its state.
DeviceHandles(t) ==
    /\ tasks[t].net = "sent"
    /\ IF DeviceRejects(device, tasks[t].call)
       THEN /\ tasks' = [tasks EXCEPT ![t] = request_raises(Throw(tasks[t], "rejected"))]
            /\ UNCHANGED device
       ELSE /\ device' = DeviceApply(device, tasks[t].call)
            /\ tasks' = [tasks EXCEPT ![t].net = "answered",
                                      ![t].reply = Snapshot(device')]
    /\ lastUpdate' = NoUpdate
    /\ UNCHANGED <<entity, conv>>

\* The awaited request fails in the channel, before it reaches the device, and
\* the await raises.
RequestLost(t) ==
    /\ tasks[t].net = "sent"
    /\ tasks' = [tasks EXCEPT ![t] = request_raises(Throw(tasks[t], "lost"))]
    /\ lastUpdate' = NoUpdate
    /\ UNCHANGED <<entity, device, conv>>

\* The await in _async_turn_on_if_needed returns: `return True`, and the caller
\* goes on to its next await or returns.
ResumeTurnOn(t) ==
    /\ tasks[t].pc = "turn_on_if_needed"
    /\ tasks[t].net = "answered"
    /\ tasks' = [tasks EXCEPT ![t] = after_turn_on(tasks[t])]
    /\ lastUpdate' = NoUpdate
    /\ UNCHANGED <<entity, device, conv>>

\* The await in _async_request returns: the snapshot is pushed to the
\* coordinator, whose listener updates the entity.
ResumeRequest(t) ==
    /\ tasks[t].pc = "request"
    /\ tasks[t].net = "answered"
    /\ entity' = async_set_updated_data(entity, tasks[t].reply)
    /\ lastUpdate' = Updated(tasks[t].reply)
    /\ tasks' = [tasks EXCEPT ![t] = _async_request_returns(tasks[t])]
    /\ UNCHANGED <<device, conv>>

\* The platform takes the result of the call; another call may follow.
Finish(t) ==
    /\ tasks[t].pc \in {"done", "failed"}
    /\ tasks' = [tasks EXCEPT ![t] = IdleTask]
    /\ lastUpdate' = NoUpdate
    /\ UNCHANGED <<entity, device, conv>>

\* The coordinator delivers a state dictionary of its own (a refresh), whatever
\* it holds.
StateUpdate ==
    /\ \E data \in StateData :
          /\ entity' = async_set_updated_data(entity, data)
          /\ lastUpdate' = Updated(data)
    /\ UNCHANGED <<device, tasks, conv>>

\* A refresh that carries the device's state as it is.
Refresh ==
    /\ entity' = async_set_updated_data(entity, Snapshot(device))
    /\ lastUpdate' = Updated(Snapshot(device))
    /\ UNCHANGED <<device, tasks, conv>>

Operation(t) ==
    \/ Call_turn_on(t)
    \/ Call_turn_off(t)
    \/ Call_set_percentage(t)
    \/ Call_set_preset_mode(t)
    \/ DeviceHandles(t)
    \/ RequestLost(t)
    \/ ResumeTurnOn(t)
    \/ ResumeRequest(t)
    \/ Finish(t)

\* No other call of a public method is in progress.
Alone(t) == \A u \in Tasks \ {t} : tasks[u].pc = "idle"

\* The entity with its public methods called one at a time, and state
\* dictionaries of any content arriving at any moment.
Next ==
    \/ \E t \in Tasks : Alone(t) /\ Call_turn_on(t)
    \/ \E t \in Tasks : Alone(t) /\ Call_turn_off(t)
    \/ \E t \in Tasks : Alone(t) /\ Call_set_percentage(t)
    \/ \E t \in Tasks : Alone(t) /\ Call_set_preset_mode(t)
    \/ \E t \in Tasks : DeviceHandles(t)
    \/ \E t \in Tasks : RequestLost(t)
    \/ \E t \in Tasks : ResumeTurnOn(t)
    \/ \E t \in Tasks : ResumeRequest(t)
    \/ \E t \in Tasks : Finish(t)
    \/ StateUpdate

Spec == Init /\ [][Next]_vars

\* The entity with its public methods called concurrently, where the only
\* state pushes besides the entity's own are refreshes that carry the device's
\* actual state.
NextConcurrent == (\E t \in Tasks : Operation(t)) \/ Refresh

SpecConcurrent == Init /\ [][NextConcurrent]_vars

\* The two conversions alone, over their whole domains.
InitConv ==
    /\ entity = [available |-> TRUE, preset_mode |-> NONE, percentage |-> NoneInt]
    /\ device = [mode |-> "OFF", speed |-> MAX_FAN_SPEED]
    /\ tasks = [t \in Tasks |-> IdleTask]
    /\ lastUpdate = NoUpdate
    /\ conv \in { [dir |-> "percentage", input |-> p, value |-> p, step |-> 0] :
                      p \in 0 .. MAX_PERCENTAGE }
                \cup
                { [dir |-> "speed", input |-> s, value |-> s, step |-> 0] :
                      s \in 0 .. MAX_FAN_SPEED }

\* percentage -> speed -> percentage
ConvertPercentage ==
    /\ conv.dir = "percentage"
    /\ \/ /\ conv.step = 0
          /\ conv' = [conv EXCEPT !.value = _fan_percentage_to_speed(@), !.step = 1]
       \/ /\ conv.step = 1
          /\ conv' = [conv EXCEPT !.value = _fan_speed_to_percentage(@), !.step = 2]
    /\ UNCHANGED <<entity, device, tasks, lastUpdate>>

\* speed -> percentage -> speed
ConvertSpeed ==
    /\ conv.dir = "speed"
    /\ \/ /\ conv.step = 0
          /\ conv' = [conv EXCEPT !.value = _fan_speed_to_percentage(@), !.step = 1]
       \/ /\ conv.step = 1
          /\ conv' = [conv EXCEPT !.value = _fan_percentage_to_speed(@), !.step = 2]
    /\ UNCHANGED <<entity, device, tasks, lastUpdate>>

NextConv == ConvertPercentage \/ ConvertSpeed

SpecConv == InitConv /\ [][NextConv]_vars

-----------------------------------------------------------------------------
\* Properties

Running == {"turn_on_if_needed", "request"}

IsPrefix(s, t) == Len(s) <= Len(t) /\ SubSeq(t, 1, Len(s)) = s

\* The vendor calls of a call follow `expected`: the first is issued when the
\* method is called, nothing outside the sequence is ever issued, and a call
\* that returns has issued all of it.
Follows(task, expected) ==
    /\ Len(task.issued) >= 1
    /\ IsPrefix(task.issued, expected)
    /\ task.pc = "done" => task.issued = expected

\* C1: every set_fan_speed request reaches the device while the device's mode
\* is not OFF.
C1_SpeedNeverReachesOffDevice ==
    [][\A t \in Tasks :
          ( /\ tasks[t].net = "sent"
            /\ tasks[t].call.fn = "set_fan_speed"
            /\ (tasks'[t].net = "answered" \/ tasks'[t].error = "rejected") )
          => device.mode # "OFF"]_vars

\* C2: every vendor call a method issues has its snapshot pushed to the
\* coordinator as soon as it returns: a call in progress has pushed all its
\* calls but the one it awaits, and a call that returned has pushed them all.
C2_EveryCallPushed ==
    \A t \in Tasks :
        /\ tasks[t].pc \in Running => tasks[t].pushes = Len(tasks[t].issued) - 1
        /\ tasks[t].pc = "done" => tasks[t].pushes = Len(tasks[t].issued)

\* C3: set_preset_mode with a name of a mode m other than MANUAL issues
\* set_fan_mode(AUTO) first when preset_mode was None, followed by
\* set_fan_mode(m) exactly when m is not AUTO; and set_fan_mode(m) alone, with
\* no turn-on step, when preset_mode was not None.
C3_PresetModeCalls ==
    \A t \in Tasks :
        LET task == tasks[t]
            m == _fan_name_to_mode(task.preset)
            expected ==
                IF task.start.off
                THEN <<SetFanMode("AUTO")>> \o
                         (IF m # "AUTO" THEN <<SetFanMode(m)>> ELSE << >>)
                ELSE <<SetFanMode(m)>>
        IN  (task.op = "set_preset_mode" /\ m \in FanMode \ {"MANUAL"})
            => /\ Follows(task, expected)
               /\ ~task.start.off => task.pc # "turn_on_if_needed"
               /\ (task.start.off /\ Len(task.issued) = 1 /\ task.pc \in Running)
                     => task.pc = "turn_on_if_needed"

\* set_preset_mode("auto") called while preset_mode was None has returned
\* after one vendor call.
C3_Witness ==
    \E t \in Tasks :
        /\ tasks[t].op = "set_preset_mode"
        /\ tasks[t].preset = "auto"
        /\ tasks[t].start.off
        /\ tasks[t].pc = "done"
        /\ tasks[t].issued = <<SetFanMode("AUTO")>>

\* C4: turn_on with neither argument issues set_fan_mode(AUTO) and nothing
\* else, whatever the entity's attributes are.
C4_TurnOnForcesAuto ==
    \A t \in Tasks :
        (tasks[t].op = "turn_on" /\ tasks[t].arg_percentage = NoneInt
                                 /\ tasks[t].preset = NONE)
        => tasks[t].issued = <<SetFanMode("AUTO")>>

\* turn_on() has returned, called while the entity was unavailable with a
\* preset_mode and a percentage set.
C4_Witness ==
    \E t \in Tasks :
        /\ tasks[t].op = "turn_on"
        /\ tasks[t].arg_percentage = NoneInt
        /\ tasks[t].preset = NONE
        /\ tasks[t].pc = "done"
        /\ ~tasks[t].start.off
        /\ tasks[t].start.percentage # NoneInt
        /\ ~entity.available

\* The vendor calls of set_percentage(q), by the preset_mode it is called in.
SetPercentageCalls(off, q) ==
    (IF off THEN <<SetFanMode("AUTO")>> ELSE << >>)
        \o <<SetFanSpeed(_fan_percentage_to_speed(q))>>

\* C5: set_preset_mode("manual") issues the vendor calls of set_percentage(q),
\* q being the percentage the entity had, or 50 when it had none; it never
\* issues set_fan_mode(MANUAL).
C5_ManualIsSetPercentage ==
    \A t \in Tasks :
        LET task == tasks[t]
            q == IF task.start.percentage # NoneInt THEN task.start.percentage ELSE 50
        IN  /\ task.op = "set_percentage"
                  => Follows(task, SetPercentageCalls(task.start.off, task.arg_percentage))
            /\ (task.op = "set_preset_mode" /\ Upper(task.preset) = "MANUAL")
                  => /\ Follows(task, SetPercentageCalls(task.start.off, q))
                     /\ \A i \in 1 .. Len(task.issued) :
                            task.issued[i] # SetFanMode("MANUAL")

\* set_preset_mode("manual") has returned, called at percentage 100 in a preset
\* mode: the one call it issued is set_fan_speed(121).
C5_Witness ==
    \E t \in Tasks :
        /\ tasks[t].op = "set_preset_mode"
        /\ tasks[t].preset = "manual"
        /\ tasks[t].pc = "done"
        /\ ~tasks[t].start.off
        /\ tasks[t].start.percentage = 100
        /\ tasks[t].issued = <<SetFanSpeed(121)>>

\* C6: a state update without fan_mode makes the entity unavailable and leaves
\* preset_mode and percentage as they were, fan_speed or not.
C6_UpdateWithoutMode ==
    [][(lastUpdate'.ran /\ lastUpdate'.data.fan_mode = NONE)
          => /\ entity'.available = FALSE
             /\ entity'.preset_mode = entity.preset_mode
             /\ entity'.percentage = entity.percentage]_vars

\* An update carrying fan_speed but no fan_mode has run on an entity that has
\* a preset_mode, and the percentage is not the one of that fan_speed.
C6_Witness ==
    /\ lastUpdate.ran
    /\ lastUpdate.data.fan_mode = NONE
    /\ lastUpdate.data.fan_speed # NoneInt
    /\ ~entity.available
    /\ entity.preset_mode # NONE
    /\ entity.percentage # _fan_speed_to_percentage(lastUpdate.data.fan_speed)

\* C7: a state update with fan_mode makes the entity available, sets
\* preset_mode to None for OFF and to the lower-case name otherwise, sets
\* percentage from fan_speed when it is present and leaves it otherwise; and
\* no state update issues a vendor call.
C7_UpdateWithMode ==
    [][lastUpdate'.ran
          => LET data == lastUpdate'.data
             IN  /\ data.fan_mode # NONE
                      => /\ entity'.available = TRUE
                         /\ entity'.preset_mode =
                                (IF data.fan_mode = "OFF" THEN NONE
                                 ELSE Lower(data.fan_mode))
                         /\ entity'.percentage =
                                (IF data.fan_speed # NoneInt
                                 THEN _fan_speed_to_percentage(data.fan_speed)
                                 ELSE entity.percentage)
                 /\ device' = device
                 /\ \A t \in Tasks : /\ tasks'[t].issued = tasks[t].issued
                                     /\ tasks'[t].call = tasks[t].call
                                          \/ tasks'[t].call = NoCall]_vars

\* An update with fan_mode OFF and no fan_speed has run on an entity that had
\* a percentage.
C7_Witness ==
    /\ lastUpdate.ran
    /\ lastUpdate.data.fan_mode = "OFF"
    /\ lastUpdate.data.fan_speed = NoneInt
    /\ entity.available
    /\ entity.preset_mode = NONE
    /\ entity.percentage # NoneInt

\* C8, as claimed: both round trips lose something: some percentage does not
\* come back from its speed, and some speed does not come back from its
\* percentage (stated where a round trip has been made).
C8_LossyBothDirections ==
    conv.step = 2 =>
    /\ \E p \in 0 .. MAX_PERCENTAGE :
          _fan_speed_to_percentage(_fan_percentage_to_speed(p)) # p
    /\ \E s \in 0 .. MAX_FAN_SPEED :
          _fan_percentage_to_speed(_fan_speed_to_percentage(s)) # s

\* C8, amended: every percentage 0..100 comes back from its speed unchanged;
\* some speed 0..121 does not come back from its percentage.
C8_LossyFromSpeedOnly ==
    /\ (conv.dir = "percentage" /\ conv.step = 2) => conv.value = conv.input
    /\ \E s \in 0 .. MAX_FAN_SPEED :
          _fan_percentage_to_speed(_fan_speed_to_percentage(s)) # s

\* A speed has been converted to a percentage and back, and is another speed.
C8_Witness ==
    /\ conv.dir = "speed"
    /\ conv.step = 2
    /\ conv.value # conv.input

\* C9: failures propagate. An exception raised in a call ends it there, with
\* no request left in flight; a preset name that names no FanMode fails the
\* call before any vendor call, the entity and the device untouched; a vendor
\* request that raises adds no vendor call and no coordinator push and leaves
\* the entity as it was; and a failed call does nothing more.
C9_FailuresPropagate ==
    [][\A t \in Tasks :
          LET a == tasks[t]
              b == tasks'[t]
          IN  /\ b.error # NONE => (b.pc = "failed" /\ b.net = NONE)
              /\ ( /\ a.pc = "idle"
                   /\ b.op = "set_preset_mode"
                   /\ Upper(b.preset) \notin FanMode )
                 => /\ b.pc = "failed"
                    /\ b.issued = << >>
                    /\ b.pushes = 0
                    /\ entity' = entity
                    /\ device' = device
              /\ (a.net = "sent" /\ b.error # NONE)
                 => /\ b.issued = a.issued
                    /\ b.pushes = a.pushes
                    /\ entity' = entity
              /\ a.pc = "failed" => (b = a \/ b = IdleTask)]_vars

\* set_percentage has failed in its AUTO turn-on step: that call is the only
\* one it issued, and nothing was pushed.
C9_Witness ==
    \E t \in Tasks :
        /\ tasks[t].op = "set_percentage"
        /\ tasks[t].pc = "failed"
        /\ tasks[t].error = "lost"
        /\ tasks[t].issued = <<SetFanMode("AUTO")>>
        /\ tasks[t].pushes = 0

\* C10: preset_mode is None or one of the declared preset_modes.
C10_PresetModeIsDeclared ==
    entity.preset_mode = NONE \/ entity.preset_mode \in _attr_preset_modes

====
